---- MODULE Spec2Model ----
(***************************************************************************)
(* Model of the two command-line flows of Cursor-Rules-Sync:               *)
(*   update.py                 the propagation flow   (specification Spec)  *)
(*   create_feature_branch.py  the branch creation flow (SpecCreate)       *)
(* Strings are sequences of tokens or characters, the git repository is    *)
(* the environment: every command returns a status the environment picks,  *)
(* and a command that succeeds changes the refs and the working tree.      *)
(***************************************************************************)
EXTENDS Naturals, Integers, Sequences, FiniteSets, TLC

VARIABLES
    \* ---- the repository (environment of both flows)
    listing,          \* stdout of `git branch -r`: a sequence of lines
    localBr,          \* names of the local branches
    tip,              \* local branch name -> tree of its tip commit
    remote,           \* remote branch name -> tree of origin's tip commit
    cur,              \* the checked-out branch
    wt,               \* working tree and index (one tree)
    fails,            \* statuses the environment has failed so far
    \* ---- update.py main()
    pc,               \* position in main()
    config_branches,  \* update.py:90
    idx,              \* position of `branch` in config_branches (1-based)
    exists,           \* result of local_branch_exists, update.py:98
    fidx,             \* position of file_path in the list being walked
    changes_made,     \* update.py:105
    last,             \* the last command issued and its status
    steps,            \* loop position -> set of stages reached for it
    exit_code,        \* exit status of the process, -1 while it runs
    \* ---- create_feature_branch.py main()
    cpc,              \* position in main()
    c_env,            \* what the flow finds: tool, identity, argv, disk
    sanitized_name,   \* create_feature_branch.py:130
    answer,           \* the line read by input(), create_feature_branch.py:140
    prompted,         \* whether input() was called
    issued,           \* the git commands issued by step 4, in order
    kidx,             \* position of `path` in EXCLUDED_PATHS (1-based)
    c_repo,           \* the repository the creation flow works on
    c_last,           \* the last command issued by run_cmd and its status
    c_exit,           \* exit status of the process, -1 while it runs
    c_out             \* the error message main() printed, 131

repoVars   == <<listing, localBr, tip, remote, cur, wt, fails>>
updateVars == <<pc, config_branches, idx, exists, fidx, changes_made, last,
                steps, exit_code>>
createVars == <<cpc, c_env, sanitized_name, answer, prompted, issued, kidx,
                c_repo, c_last, c_exit, c_out>>
vars == <<repoVars, updateVars, createVars>>

(***************************************************************************)
(* Bounds                                                                  *)
(***************************************************************************)
MaxBranches == 2   \* feature branches the remote may hold
MaxFail == 2       \* statuses the environment may fail in one run
MaxLen == 3        \* characters of the branch name given on the command line
MaxOnDisk == 1     \* excluded paths that exist in the working directory

(***************************************************************************)
(* update.py: configuration                                                *)
(***************************************************************************)
GENERAL == "rules/general.mdc"
GITATTR == ".gitattributes"
README  == "README.md"
Files   == {GENERAL, GITATTR, README}

FILES_TO_UPDATE       == <<GENERAL>>
FILES_TO_FORCE_UPDATE == <<GITATTR>>
MAIN                  == <<"main">>
SKIP_BRANCHES         == <<MAIN>>

(***************************************************************************)
(* The repository                                                          *)
(***************************************************************************)
\* A tree gives every path a content: "absent", "old" or "new".
NoTree   == [f \in Files |-> "absent"]
MainTree == [f \in Files |-> "new"]
BranchTrees ==
    { [f \in Files |-> IF f = GENERAL THEN g ELSE IF f = GITATTR THEN a ELSE "old"] :
        g \in {"absent", "old", "new"}, a \in {"old", "new"} }

FeaturePool  == <<"a", "b", "c", "d">>
FeatureNames == { <<FeaturePool[i]>> : i \in 1..MaxBranches }
OddName      == <<"origin/", "a">>     \* a remote branch called origin/a
Names        == {MAIN, OddName} \cup FeatureNames

\* Lines of `git branch -r`, as git prints them (indented, one per ref).
AliasLine     == <<"  ", "origin/", "HEAD", " ", "->", " ", "origin/", "main">>
OriginLine(n) == <<"  ", "origin/">> \o n
UpstreamLine  == <<"  ", "upstream/", "a">>
AllLines ==
    <<AliasLine>> \o [i \in 1..MaxBranches |-> OriginLine(<<FeaturePool[i]>>)]
        \o <<OriginLine(MAIN), OriginLine(OddName), UpstreamLine>>
Listings ==
    { SelectSeq(AllLines, LAMBDA l : l \in {AliasLine, OriginLine(MAIN)} \cup S) :
        S \in SUBSET ({OriginLine(n) : n \in FeatureNames}
                        \cup {OriginLine(OddName), UpstreamLine}) }

Listed(lines, l) == \E i \in DOMAIN lines : lines[i] = l
\* The refs of origin that exist: one per listed origin/<name> line.
RemoteRefs(lines) == { n \in Names : Listed(lines, OriginLine(n)) }


(***************************************************************************)
(* create_feature_branch.py: configuration and strings                     *)
(***************************************************************************)
EXCLUDED_PATHS ==
    << <<".vscode">>, <<"create_feature_branch.py">>, <<"update.py">>,
       <<"test_scripts.py">>, <<"todo.txt">> >>
MainFile == <<"main">>                  \* the file named `main`

\* A string is a sequence of characters; a fixed name is one token.
InputChars  == {"a", "b", " ", "\n", "/"}
                   \cup {"~", "^", ":", "?", "*", "[", "]", "\\"}
\* The inputs of test_scripts.py:46-53
Examples ==
    { <<"t", "e", "s", "t">>,
      <<"n", "e", "w", " ", "b", "r", "a", "n", "c", "h">>,
      <<"?", "?", "i", "n", "v", "a", "l", "i", "d", "?", "?">>,
      <<"a", "n", "o", "t", "h", "e", "r", "/", "b", "a", "d", "/", "/", "/",
        "n", "a", "m", "e">> }
Inputs      == UNION { [1..n -> InputChars] : n \in 0..MaxLen } \cup Examples
AnswerChars == {"y", "Y", "e", "s", " "}
Answers     == UNION { [1..n -> AnswerChars] : n \in 0..3 }
EOF         == <<"<EOF>">>              \* input() finds stdin closed

\* What the creation flow has found so far, and its repository.
NoEnv  == [git |-> FALSE, name |-> FALSE, email |-> FALSE, argv |-> <<>>,
           disk |-> {}]
Repo0  == [local |-> {<<"main">>}, remote |-> {<<"main">>}, head |-> <<"main">>,
           index |-> {MainFile} \cup {EXCLUDED_PATHS[k] : k \in DOMAIN EXCLUDED_PATHS},
           tree |-> {}]
NoCCmd == [cmd |-> "none", rc |-> 0, check |-> FALSE, printed |-> FALSE]

\* The creation flow is not running.
CreateIdle ==
    /\ cpc = "idle"
    /\ c_env = NoEnv
    /\ sanitized_name = <<>>
    /\ answer = <<>>
    /\ prompted = FALSE
    /\ issued = <<>>
    /\ kidx = 1
    /\ c_repo = Repo0
    /\ c_last = NoCCmd
    /\ c_exit = -1
    /\ c_out = <<>>

(***************************************************************************)
(* update.py: run_cmd                                                      *)
(***************************************************************************)
\* Whether run_cmd raises: subprocess.run raises CalledProcessError only when
\* check is set and the status is not 0; run_cmd re-raises unless allow_fail.
RaisesAlways(check, allow_fail, rc) == check /\ rc # 0
RaisesNever(check, allow_fail, rc) == FALSE
Raises(check, allow_fail, rc) == check /\ rc # 0 /\ ~allow_fail

\* The statuses the environment may return: 1 alone when git must refuse the
\* command, else 0, or 1 while the environment may still fail a command.
Statuses(mustFail) ==
    IF mustFail THEN {1} ELSE IF fails < MaxFail THEN {0, 1} ELSE {0}
Charge(mustFail, rc) == IF rc # 0 /\ ~mustFail THEN fails + 1 ELSE fails

Cmd(c, rc) == [cmd |-> c, rc |-> rc, on |-> cur]
NoCmd      == [cmd |-> "none", rc |-> 0, on |-> MAIN]

(***************************************************************************)
(* update.py: get_remote_branches                                          *)
(***************************************************************************)
IsSpace(t) == t \in {" ", "  "}

RECURSIVE LStrip(_)
LStrip(s) == IF s # <<>> /\ IsSpace(Head(s)) THEN LStrip(Tail(s)) ELSE s
RECURSIVE RStrip(_)
RStrip(s) ==
    IF s # <<>> /\ IsSpace(s[Len(s)]) THEN RStrip(SubSeq(s, 1, Len(s) - 1)) ELSE s
\* line.strip()
StripLine(s) == RStrip(LStrip(s))

\* "->" in line
HasArrow(line) == \E i \in DOMAIN line : line[i] = "->"
\* line.startswith("origin/")
StartsWithOrigin(line) == line # <<>> /\ Head(line) = "origin/"
\* line.replace("origin/", ""): every occurrence goes, not only the prefix
ReplaceOrigin(line) == SelectSeq(line, LAMBDA t : t # "origin/")
\* branch_name not in skip_branches
InList(n, list) == \E i \in DOMAIN list : list[i] = n

RECURSIVE GetRemoteBranchesNoSkip(_, _)
GetRemoteBranchesNoSkip(lines, skip_branches) ==
    IF lines = <<>> THEN <<>>
    ELSE LET line == StripLine(Head(lines))
             rest == GetRemoteBranchesNoSkip(Tail(lines), skip_branches)
         IN  IF HasArrow(line) THEN rest
             ELSE IF StartsWithOrigin(line) THEN <<ReplaceOrigin(line)>> \o rest
             ELSE rest

RECURSIVE GetRemoteBranches(_, _)
GetRemoteBranches(lines, skip_branches) ==
    IF lines = <<>> THEN <<>>
    ELSE LET line == StripLine(Head(lines))
             rest == GetRemoteBranches(Tail(lines), skip_branches)
         IN  IF HasArrow(line) THEN rest
             ELSE IF StartsWithOrigin(line) /\ ~InList(ReplaceOrigin(line), skip_branches)
                  THEN <<ReplaceOrigin(line)>> \o rest
             ELSE rest

(***************************************************************************)
(* git, as update.py uses it                                               *)
(***************************************************************************)
\* Paths whose working-tree content differs from HEAD.
Dirty(f) == wt[f] # tip[cur][f]
\* git refuses to switch when a locally modified path differs between HEAD
\* and the target and the local content is not the target's.
SwitchRefused(tree) ==
    \E f \in Files : Dirty(f) /\ tip[cur][f] # tree[f] /\ wt[f] # tree[f]
\* The tree after a switch: local modifications are carried over.
SwitchedTree(tree) ==
    [f \in Files |-> IF Dirty(f) THEN wt[f] ELSE tree[f]]
\* os.path.exists(file_path)
PathNeverExists(f) == FALSE
PathAlwaysExists(f) == TRUE
PathExists(f) == wt[f] # "absent"
\* stdout of `git diff HEAD --name-only <f>`: the path, when it differs
DiffLists(f) == Dirty(f)
\* `git commit -am` has nothing to commit when no tracked path differs
NothingToCommit == \A f \in Files : ~Dirty(f)


(***************************************************************************)
(* update.py: main                                                         *)
(***************************************************************************)
branch    == config_branches[idx]
InLoop    == idx <= Len(config_branches)
Reach(st) == [steps EXCEPT ![idx] = @ \cup st]
Abort     == pc' = "aborted" /\ exit_code' = 1
Goto(p)   == pc' = p /\ exit_code' = exit_code

\* update.py:85
CheckoutMainFirst ==
    /\ pc = "start"
    /\ \E rc \in Statuses(SwitchRefused(tip[MAIN])) :
        /\ last' = Cmd("checkout_main", rc)
        /\ fails' = Charge(SwitchRefused(tip[MAIN]), rc)
        /\ cur' = IF rc = 0 THEN MAIN ELSE cur
        /\ wt' = IF rc = 0 THEN SwitchedTree(tip[MAIN]) ELSE wt
        /\ IF Raises(TRUE, FALSE, rc) THEN Abort ELSE Goto("fetch")
    /\ UNCHANGED <<listing, localBr, tip, remote, config_branches, idx, exists,
                   fidx, changes_made, steps, createVars>>

\* update.py:48
Fetch ==
    /\ pc = "fetch"
    /\ \E rc \in Statuses(FALSE) :
        /\ last' = Cmd("fetch", rc)
        /\ fails' = Charge(FALSE, rc)
        /\ IF Raises(TRUE, FALSE, rc) THEN Abort ELSE Goto("branch_r")
    /\ UNCHANGED <<listing, localBr, tip, remote, cur, wt, config_branches, idx,
                   exists, fidx, changes_made, steps, createVars>>

\* update.py:51-66 and 90
BranchR ==
    /\ pc = "branch_r"
    /\ \E rc \in Statuses(FALSE) :
        /\ last' = Cmd("branch_r", rc)
        /\ fails' = Charge(FALSE, rc)
        /\ IF Raises(TRUE, FALSE, rc)
           THEN Abort /\ UNCHANGED <<config_branches, idx, steps>>
           ELSE LET stdout == IF rc = 0 THEN listing ELSE <<>>
                    found  == GetRemoteBranches(stdout, SKIP_BRANCHES)
                IN  /\ config_branches' = found
                    /\ idx' = 1
                    /\ steps' = [i \in 1..Len(found) |-> {}]
                    /\ Goto("loop")
    /\ UNCHANGED <<listing, localBr, tip, remote, cur, wt, exists, fidx,
                   changes_made, createVars>>

\* update.py:98, local_branch_exists (69-74): check=False, never raises
ListLocal ==
    /\ pc = "loop" /\ InLoop
    /\ \E rc \in Statuses(FALSE) :
        /\ last' = Cmd("branch_list", rc)
        /\ fails' = Charge(FALSE, rc)
        /\ exists' = (rc = 0 /\ branch \in localBr)
        /\ IF Raises(FALSE, FALSE, rc) THEN Abort ELSE Goto("switch")
    /\ UNCHANGED <<listing, localBr, tip, remote, cur, wt, config_branches, idx,
                   fidx, changes_made, steps, createVars>>

\* update.py:99-100 and 105: git checkout -b <branch> origin/<branch>
CheckoutNew ==
    /\ pc = "switch" /\ ~exists
    /\ LET refused == \/ branch \notin RemoteRefs(listing)
                      \/ branch \in localBr
                      \/ SwitchRefused(remote[branch])
       IN \E rc \in Statuses(refused) :
        /\ last' = Cmd("checkout_b", rc)
        /\ fails' = Charge(refused, rc)
        /\ localBr' = IF rc = 0 THEN localBr \cup {branch} ELSE localBr
        /\ tip' = IF rc = 0 THEN [tip EXCEPT ![branch] = remote[branch]] ELSE tip
        /\ cur' = IF rc = 0 THEN branch ELSE cur
        /\ wt' = IF rc = 0 THEN SwitchedTree(remote[branch]) ELSE wt
        /\ IF Raises(TRUE, FALSE, rc)
           THEN Abort /\ UNCHANGED <<changes_made, fidx, steps>>
           ELSE /\ changes_made' = FALSE
                /\ fidx' = 1
                /\ steps' = Reach({"checkout"})
                /\ Goto("update")
    /\ UNCHANGED <<listing, remote, config_branches, idx, exists, createVars>>

\* update.py:102-103 and 105: git checkout <branch>
CheckoutExisting ==
    /\ pc = "switch" /\ exists
    /\ LET refused == branch \notin localBr \/ SwitchRefused(tip[branch])
       IN \E rc \in Statuses(refused) :
        /\ last' = Cmd("checkout", rc)
        /\ fails' = Charge(refused, rc)
        /\ cur' = IF rc = 0 THEN branch ELSE cur
        /\ wt' = IF rc = 0 THEN SwitchedTree(tip[branch]) ELSE wt
        /\ IF Raises(TRUE, FALSE, rc)
           THEN Abort /\ UNCHANGED <<changes_made, fidx, steps>>
           ELSE /\ changes_made' = FALSE
                /\ fidx' = 1
                /\ steps' = Reach({"checkout"})
                /\ Goto("update")
    /\ UNCHANGED <<listing, localBr, tip, remote, config_branches, idx, exists,
                   createVars>>


\* The content `git checkout main -- <f>` writes: main's (update.py:112, 131).
ContentFromMain(f) == tip[MAIN][f]

\* update.py:132: a forced update always marks a change
KeepsFlag(flag) == flag
ForceMarksChange(flag) == TRUE

\* update.py:108-109 and 120-123: the path is not in this checkout
UpdateSkip ==
    /\ pc = "update" /\ fidx <= Len(FILES_TO_UPDATE)
    /\ ~PathExists(FILES_TO_UPDATE[fidx])
    /\ fidx' = fidx + 1
    /\ steps' = Reach({IF wt[FILES_TO_UPDATE[fidx]] = "absent"
                       THEN "skipped_absent" ELSE "skipped"})
    /\ UNCHANGED <<repoVars, pc, config_branches, idx, exists, changes_made,
                   last, exit_code, createVars>>

\* update.py:108-112: git checkout main -- <file_path>
UpdateOverwrite ==
    /\ pc = "update" /\ fidx <= Len(FILES_TO_UPDATE)
    /\ PathExists(FILES_TO_UPDATE[fidx])
    /\ LET f       == FILES_TO_UPDATE[fidx]
           refused == ContentFromMain(f) = "absent"
       IN \E rc \in Statuses(refused) :
        /\ last' = Cmd("checkout_file", rc)
        /\ fails' = Charge(refused, rc)
        /\ wt' = IF rc = 0 THEN [wt EXCEPT ![f] = ContentFromMain(f)] ELSE wt
        /\ IF Raises(TRUE, FALSE, rc)
           THEN Abort /\ steps' = steps
           ELSE Goto("diff") /\ steps' = Reach({IF wt[f] = "absent" THEN "created"
                                                 ELSE "updated"})
    /\ UNCHANGED <<listing, localBr, tip, remote, cur, config_branches, idx,
                   exists, fidx, changes_made, createVars>>

\* update.py:115-119: git diff HEAD --name-only <file_path>, check=False
UpdateDiff ==
    /\ pc = "diff"
    /\ \E rc \in Statuses(FALSE) :
        /\ last' = Cmd("diff", rc)
        /\ fails' = Charge(FALSE, rc)
        /\ IF Raises(FALSE, FALSE, rc)
           THEN Abort /\ UNCHANGED <<changes_made, fidx, steps>>
           ELSE LET stdout == rc = 0 /\ DiffLists(FILES_TO_UPDATE[fidx])
                IN  /\ changes_made' = (changes_made \/ stdout)
                    /\ steps' = Reach(IF stdout THEN {"listed"} ELSE {})
                    /\ fidx' = fidx + 1
                    /\ Goto("update")
    /\ UNCHANGED <<listing, localBr, tip, remote, cur, wt, config_branches, idx,
                   exists, createVars>>

\* update.py:108, 126: the first list is done, the second begins
UpdateDone ==
    /\ pc = "update" /\ fidx > Len(FILES_TO_UPDATE)
    /\ pc' = "force"
    /\ fidx' = 1
    /\ UNCHANGED <<repoVars, config_branches, idx, exists, changes_made, last,
                   steps, exit_code, createVars>>

\* update.py:126-132: git checkout main -- <file_path>, and the flag
ForceOverwrite ==
    /\ pc = "force" /\ fidx <= Len(FILES_TO_FORCE_UPDATE)
    /\ LET f       == FILES_TO_FORCE_UPDATE[fidx]
           refused == ContentFromMain(f) = "absent"
       IN \E rc \in Statuses(refused) :
        /\ last' = Cmd("checkout_file", rc)
        /\ fails' = Charge(refused, rc)
        /\ wt' = IF rc = 0 THEN [wt EXCEPT ![f] = ContentFromMain(f)] ELSE wt
        /\ IF Raises(TRUE, FALSE, rc)
           THEN Abort /\ UNCHANGED <<changes_made, fidx, steps>>
           ELSE /\ changes_made' = ForceMarksChange(changes_made)
                /\ fidx' = fidx + 1
                /\ steps' = Reach({"forced"})
                /\ Goto("force")
    /\ UNCHANGED <<listing, localBr, tip, remote, cur, config_branches, idx,
                   exists, createVars>>

\* update.py:135 and 152-153: commit only when a change was recorded
ForceDone ==
    /\ pc = "force" /\ fidx > Len(FILES_TO_FORCE_UPDATE)
    /\ pc' = IF changes_made THEN "commit" ELSE "back"
    /\ UNCHANGED <<repoVars, config_branches, idx, exists, fidx, changes_made,
                   last, steps, exit_code, createVars>>

\* update.py:140 and 148: the test of the returned status
NeverFailed(rc) == FALSE
Failed(rc) == rc # 0

\* update.py:137-145: git commit -am ..., allow_fail=True
Commit ==
    /\ pc = "commit"
    /\ \E rc \in Statuses(NothingToCommit) :
        /\ last' = Cmd("commit", rc)
        /\ fails' = Charge(NothingToCommit, rc)
        /\ tip' = IF rc = 0 THEN [tip EXCEPT ![cur] = wt] ELSE tip
        /\ IF Raises(TRUE, TRUE, rc)
           THEN Abort /\ UNCHANGED <<idx, steps>>
           ELSE /\ steps' = Reach({"commit", IF rc = 0 THEN "committed"
                                                    ELSE "commit_failed"})
                /\ IF Failed(rc)
                   THEN idx' = idx + 1 /\ Goto("loop")
                   ELSE idx' = idx /\ Goto("push")
    /\ UNCHANGED <<listing, localBr, remote, cur, wt, config_branches, exists,
                   fidx, changes_made, createVars>>

\* update.py:147-151: git push, allow_fail=True
Push ==
    /\ pc = "push"
    /\ \E rc \in Statuses(FALSE) :
        /\ last' = Cmd("push", rc)
        /\ fails' = Charge(FALSE, rc)
        /\ remote' = IF rc = 0 THEN [remote EXCEPT ![cur] = tip[cur]] ELSE remote
        /\ IF Raises(TRUE, TRUE, rc)
           THEN Abort /\ UNCHANGED <<idx, steps>>
           ELSE /\ steps' = Reach({"push", IF rc = 0 THEN "pushed"
                                                  ELSE "push_failed"})
                /\ IF Failed(rc)
                   THEN idx' = idx + 1 /\ Goto("loop")
                   ELSE idx' = idx /\ Goto("back")
    /\ UNCHANGED <<listing, localBr, tip, cur, wt, config_branches, exists,
                   fidx, changes_made, createVars>>

\* update.py:156: git checkout main, then the next branch
CheckoutMainBack ==
    /\ pc = "back"
    /\ \E rc \in Statuses(SwitchRefused(tip[MAIN])) :
        /\ last' = Cmd("checkout_main", rc)
        /\ fails' = Charge(SwitchRefused(tip[MAIN]), rc)
        /\ cur' = IF rc = 0 THEN MAIN ELSE cur
        /\ wt' = IF rc = 0 THEN SwitchedTree(tip[MAIN]) ELSE wt
        /\ IF Raises(TRUE, FALSE, rc)
           THEN Abort /\ UNCHANGED <<idx, steps>>
           ELSE /\ steps' = Reach({"back"})
                /\ idx' = idx + 1
                /\ Goto("loop")
    /\ UNCHANGED <<listing, localBr, tip, remote, config_branches, exists, fidx,
                   changes_made, createVars>>

\* update.py:158: the list is exhausted, main returns
Finish ==
    /\ pc = "loop" /\ ~InLoop
    /\ pc' = "done"
    /\ exit_code' = 0
    /\ UNCHANGED <<repoVars, config_branches, idx, exists, fidx, changes_made,
                   last, steps, createVars>>

\* The repository update.py starts in: origin holds main and some feature
\* branches; a local branch, where there is one, is where origin's is.
InitRepo ==
    /\ listing \in Listings
    /\ \E tr \in [FeatureNames -> BranchTrees], loc \in SUBSET FeatureNames :
        /\ loc \subseteq RemoteRefs(listing)
        /\ \A n \in FeatureNames \ RemoteRefs(listing) :
              tr[n] = [f \in Files |-> "old"]
        /\ remote = [n \in Names |->
                        IF n \notin RemoteRefs(listing) THEN NoTree
                        ELSE IF n = MAIN THEN MainTree
                        ELSE IF n = OddName THEN [f \in Files |-> "old"]
                        ELSE tr[n]]
        /\ localBr = loc \cup {MAIN}
        /\ tip = [n \in Names |->
                        IF n = MAIN THEN MainTree
                        ELSE IF n \in loc THEN tr[n] ELSE NoTree]
    /\ cur \in localBr
    /\ wt = tip[cur]
    /\ fails = 0

Init ==
    /\ InitRepo
    /\ pc = "start"
    /\ config_branches = <<>>
    /\ idx = 1
    /\ exists = FALSE
    /\ fidx = 1
    /\ changes_made = FALSE
    /\ last = NoCmd
    /\ steps = <<>>
    /\ exit_code = -1
    /\ CreateIdle

Next ==
    \/ CheckoutMainFirst
    \/ Fetch
    \/ BranchR
    \/ ListLocal
    \/ CheckoutNew
    \/ CheckoutExisting
    \/ UpdateSkip
    \/ UpdateOverwrite
    \/ UpdateDiff
    \/ UpdateDone
    \/ ForceOverwrite
    \/ ForceDone
    \/ Commit
    \/ Push
    \/ CheckoutMainBack
    \/ Finish

Spec == Init /\ [][Next]_vars


(***************************************************************************)
(* Properties of the propagation flow (Spec)                               *)
(***************************************************************************)
Iterations   == DOMAIN steps
Over(i)      == i \in Iterations /\ (i < idx \/ pc = "done")
ToleratedCmds == {"commit", "push"}
\* The commands update.py runs with check=True and without allow_fail.
FatalCmds    == {"checkout_main", "fetch", "branch_r", "checkout_b", "checkout",
                 "checkout_file"}
\* No command of the run returned a non-zero status.
NoCommandFailed ==
    /\ fails = 0
    /\ pc # "aborted"
    /\ \A i \in Iterations : steps[i] \cap {"commit_failed", "push_failed"} = {}

C2_IterationStartsOnMain ==
    (pc \in {"loop", "switch"} /\ InLoop) =>
        /\ cur = MAIN
        /\ idx > 1 => "back" \in steps[idx - 1]

\* C3 as stated: in a run where the environment fails no command, every
\* branch whose iteration is over got a commit, whatever its content was.
C3_CommitCreatedEveryRun ==
    fails = 0 => \A i \in Iterations : Over(i) => "committed" \in steps[i]

\* C3, amended: for every processed branch the forced paths are overwritten
\* from main and a commit is attempted, whatever the diff says: the flow
\* reaches the commit with main's content in place, and never takes the
\* no-change exit.
C3_ForcedCommitAttempted ==
    /\ \A i \in Iterations : Over(i) => {"forced", "commit"} \subseteq steps[i]
    /\ pc = "commit" =>
          \A k \in DOMAIN FILES_TO_FORCE_UPDATE :
              wt[FILES_TO_FORCE_UPDATE[k]] = tip[MAIN][FILES_TO_FORCE_UPDATE[k]]
    /\ pc = "back" => "pushed" \in steps[idx]

\* A branch whose content already was main's: the forced path was
\* overwritten, the commit was attempted and git created none.
C3_Witness ==
    \E i \in Iterations :
        /\ Over(i) /\ fails = 0
        /\ {"forced", "commit_failed"} \subseteq steps[i]
        /\ tip[config_branches[i]][GITATTR] = tip[MAIN][GITATTR]

\* C4: after a run in which no command failed, the local and the remote tip
\* of every listed branch hold main's content of every forced path and of
\* every Files-To-Update path the branch has.
C4_Propagated ==
    (pc = "done" /\ NoCommandFailed) =>
        \A i \in DOMAIN config_branches :
            LET b == config_branches[i] IN
            /\ \A k \in DOMAIN FILES_TO_FORCE_UPDATE :
                  LET f == FILES_TO_FORCE_UPDATE[k] IN
                  tip[b][f] = tip[MAIN][f] /\ remote[b][f] = tip[MAIN][f]
            /\ \A k \in DOMAIN FILES_TO_UPDATE :
                  LET f == FILES_TO_UPDATE[k] IN
                  tip[b][f] # "absent" =>
                      tip[b][f] = tip[MAIN][f] /\ remote[b][f] = tip[MAIN][f]

\* Two branches a and b, both holding the Files-To-Update path, updated by a
\* run in which no command failed.
C4_Witness ==
    /\ pc = "done" /\ NoCommandFailed
    /\ \E i, j \in DOMAIN config_branches :
        /\ config_branches[i] # config_branches[j]
        /\ "updated" \in steps[i] /\ "updated" \in steps[j]
        /\ "pushed" \in steps[i] /\ "pushed" \in steps[j]

\* C5: after update.py ends with status 0, README.md on every local branch
\* other than main has main's content.
C5_ReadmePropagated ==
    (pc = "done" /\ exit_code = 0) =>
        \A b \in localBr \ {MAIN} : tip[b][README] = tip[MAIN][README]

\* C6: no skip-list branch is in the list the loop walks, no commit and no
\* push is issued while a skip-list branch is checked out, and the tips of
\* main, local and remote, stay what they were.
C6_SkipListUntouched ==
    /\ \A i \in DOMAIN config_branches : ~InList(config_branches[i], SKIP_BRANCHES)
    /\ pc \in {"commit", "push"} => ~InList(cur, SKIP_BRANCHES)
    /\ last.cmd \in ToleratedCmds => ~InList(last.on, SKIP_BRANCHES)
    /\ tip[MAIN] = MainTree /\ remote[MAIN] = MainTree

\* A run with a tolerated failure and a push, over: main is where it was.
C6_Witness ==
    /\ pc = "done"
    /\ Listed(listing, OriginLine(MAIN))
    /\ \E i \in Iterations : "push_failed" \in steps[i]
    /\ \E j \in Iterations : "pushed" \in steps[j]

\* The commands of the loop the claim counts as fatal.
C7Named == {"checkout_b", "checkout", "checkout_file", "diff", "checkout_main"}

ForbiddenButBackslash == {"~", "^", ":", "?", "*", "[", "]"}
Forbidden == {"~", "^", ":", "?", "*", "[", "]", "\\"}

RECURSIVE DropLeading(_, _)
DropLeading(s, cs) ==
    IF s # <<>> /\ Head(s) \in cs THEN DropLeading(Tail(s), cs) ELSE s
RECURSIVE DropTrailing(_, _)
DropTrailing(s, cs) ==
    IF s # <<>> /\ s[Len(s)] \in cs
    THEN DropTrailing(SubSeq(s, 1, Len(s) - 1), cs) ELSE s
\* str.strip() and str.strip("/")
StripChars(s, cs) == DropTrailing(DropLeading(s, cs), cs)
\* What \s and str.strip() take for whitespace.
Whitespace == {" ", "\n", "\t"}

\* re.sub(r"<cs>+", to, s): every maximal run of characters of cs becomes `to`
RECURSIVE SubRuns(_, _, _)
SubRuns(s, cs, to) ==
    IF s = <<>> THEN <<>>
    ELSE IF Head(s) \in cs THEN <<to>> \o SubRuns(DropLeading(s, cs), cs, to)
    ELSE <<Head(s)>> \o SubRuns(Tail(s), cs, to)

Contains(s, cs) == \E i \in DOMAIN s : s[i] \in cs

\* os.path.basename: what follows the last separator
FirstSegment(s) ==
    IF ~Contains(s, {"/"}) THEN s
    ELSE SubSeq(s, 1, (CHOOSE i \in DOMAIN s :
                          s[i] = "/" /\ \A j \in 1..(i - 1) : s[j] # "/") - 1)
AfterFirstSeparator(s) ==
    IF ~Contains(s, {"/"}) THEN s
    ELSE SubSeq(s, 1 + (CHOOSE i \in DOMAIN s :
                           s[i] = "/" /\ \A j \in 1..(i - 1) : s[j] # "/"), Len(s))
RECURSIVE Basename(_)
Basename(s) ==
    IF ~Contains(s, {"/"}) THEN s
    ELSE Basename(Tail(s))

\* create_feature_branch.py:80-83
Dashed(branch_name) ==
    SelectSeq(SubRuns(StripChars(branch_name, Whitespace), Whitespace, "-"),
              LAMBDA c : c # "\n")
\* create_feature_branch.py:87-88: the ValueError and its message
SanitizeNeverFails(branch_name) == FALSE
SanitizeFails(branch_name) == Contains(Dashed(branch_name), Forbidden)
InvalidCharacters(branch_name) ==
    <<"Branch name '">> \o branch_name \o <<"' contains invalid characters.">>
\* create_feature_branch.py:91-100
Sanitize(branch_name) ==
    LET clean == StripChars(SubRuns(Dashed(branch_name), {"/"}, "/"), {"/"})
    IN  IF Contains(clean, {"/", "\\"}) THEN Basename(clean) ELSE clean

(***************************************************************************)
(* create_feature_branch.py: run_cmd and main                              *)
(***************************************************************************)
\* Whether run_cmd raises CalledProcessError (create_feature_branch.py:26-31)
CRaisesNever(check, rc) == FALSE
CRaisesAlways(check, rc) == rc # 0
CRaises(check, rc) == check /\ rc # 0
\* Whether run_cmd prints the command, stdout and stderr (27-30): these lines
\* follow subprocess.run(..., check=check) at 26, which has raised already
\* when check is set and the status is not 0.
Reports(check, rc) ==
    LET returned == ~(check /\ rc # 0)
    IN  returned /\ check /\ rc # 0
\* What run_cmd leaves behind: the command, its status, what was printed.
RunCmd(c, check, rc) ==
    [cmd |-> c, rc |-> rc, check |-> check, printed |-> Reports(check, rc)]

Lower(c) == IF c = "Y" THEN "y" ELSE IF c = "E" THEN "e" ELSE IF c = "S" THEN "s" ELSE c
\* .strip().lower() of the line read
Normalized(line) == [i \in DOMAIN StripChars(line, Whitespace) |->
                        Lower(StripChars(line, Whitespace)[i])]
\* create_feature_branch.py:136
NeedsPrompt(original, sanitized) == sanitized # original
\* create_feature_branch.py:145
ConfirmedAlways(line) == TRUE
Confirmed(line) == Normalized(line) \in {<<"y">>, <<"y", "e", "s">>}

original_branch_name == c_env.argv[1]
CExit(p, code) == cpc' = p /\ c_exit' = code
CGoto(p)       == cpc' = p /\ c_exit' = c_exit
\* One command of the try block: its name, its path or branch argument, its status
Issue(c, arg, rc) ==
    issued' = Append(issued, [cmd |-> c, arg |-> arg, rc |-> rc])

\* create_feature_branch.py:108-110, is_git_installed (35-46)
IsGitInstalled ==
    /\ cpc = "start"
    /\ \E out \in {"missing", "error", "ok"} :
        /\ c_last' = IF out = "missing" THEN c_last
                     ELSE RunCmd("version", TRUE, IF out = "ok" THEN 0 ELSE 1)
        /\ c_env' = [c_env EXCEPT !.git = (out = "ok")]
        /\ IF out = "ok" THEN CGoto("identity") ELSE CExit("no_git", 1)
    /\ UNCHANGED <<sanitized_name, answer, prompted, issued, kidx, c_repo,
                   c_out,
                   repoVars, updateVars>>

\* create_feature_branch.py:113-120, can_commit (49-66)
CanCommit ==
    /\ cpc = "identity"
    /\ \E user_name \in BOOLEAN, user_email \in BOOLEAN :
        /\ c_env' = [c_env EXCEPT !.name = user_name, !.email = user_email]
        /\ IF user_name /\ user_email THEN CGoto("argv") ELSE CExit("no_identity", 1)
    /\ c_last' = RunCmd("config", FALSE, 0)
    /\ UNCHANGED <<sanitized_name, answer, prompted, issued, kidx, c_repo,
                   c_out,
                   repoVars, updateVars>>

\* create_feature_branch.py:123-128
ReadArgv ==
    /\ cpc = "argv"
    /\ \E args \in {<<>>} \cup { <<s>> : s \in Inputs } :
        /\ c_env' = [c_env EXCEPT !.argv = args]
        /\ IF Len(args) < 1 THEN CExit("no_argument", 1) ELSE CGoto("sanitize")
    /\ UNCHANGED <<sanitized_name, answer, prompted, issued, kidx, c_repo,
                   c_last, c_out,
                   repoVars, updateVars>>

\* create_feature_branch.py:129-136
SanitizeName ==
    /\ cpc = "sanitize"
    /\ IF SanitizeFails(original_branch_name)
       THEN /\ CExit("invalid", 1)
            /\ sanitized_name' = sanitized_name
            /\ c_out' = InvalidCharacters(original_branch_name)
       ELSE /\ sanitized_name' = Sanitize(original_branch_name)
            /\ c_out' = c_out
            /\ IF NeedsPrompt(original_branch_name, sanitized_name')
               THEN CGoto("prompt") ELSE CGoto("checkout_b")
    /\ UNCHANGED <<c_env, answer, prompted, issued, kidx, c_repo, c_last,
                   repoVars, updateVars>>

\* create_feature_branch.py:137-147
Prompt ==
    /\ cpc = "prompt"
    /\ prompted' = TRUE
    /\ \E line \in Answers \cup {EOF} :
        /\ answer' = line
        /\ IF line = EOF THEN CExit("eof", 1)
           ELSE IF ~Confirmed(line) THEN CExit("declined", 0)
           ELSE CGoto("checkout_b")
    /\ UNCHANGED <<c_env, sanitized_name, issued, kidx, c_repo, c_last,
                   c_out,
                   repoVars, updateVars>>


\* The end of a step of the try block (create_feature_branch.py:150-190):
\* a CalledProcessError is caught and the process exits with status 1.
Step(check, rc, next) ==
    IF CRaises(check, rc) THEN CExit("failed", 1) ELSE CGoto(next)
Free(refused) == IF refused THEN {1} ELSE {0, 1}
IsExcluded(p) == \E k \in DOMAIN EXCLUDED_PATHS : EXCLUDED_PATHS[k] = p

\* create_feature_branch.py:153: git checkout -b <sanitized_name>
GitCheckoutB ==
    /\ cpc = "checkout_b"
    /\ \E rc \in Free(sanitized_name = <<>> \/ sanitized_name \in c_repo.local) :
        /\ Issue("checkout_b", sanitized_name, rc)
        /\ c_last' = RunCmd("checkout_b", TRUE, rc)
        /\ c_repo' = IF rc = 0
                     THEN [c_repo EXCEPT !.local = @ \cup {sanitized_name},
                                         !.head = sanitized_name]
                     ELSE c_repo
        /\ Step(TRUE, rc, "mv")
    /\ UNCHANGED <<c_env, sanitized_name, answer, prompted, kidx, c_out,
                   repoVars, updateVars>>

\* What `git mv main <name>` does to the index.
Copied(index, name)  == index \cup {name}
Renamed(index, name) == (index \ {MainFile}) \cup {name}

\* create_feature_branch.py:157: git mv main <sanitized_name>
GitMv ==
    /\ cpc = "mv"
    /\ \E rc \in Free(MainFile \notin c_repo.index) :
        /\ Issue("mv", sanitized_name, rc)
        /\ c_last' = RunCmd("mv", TRUE, rc)
        /\ c_repo' = IF rc = 0
                     THEN [c_repo EXCEPT
                             !.index = Renamed(@, sanitized_name)]
                     ELSE c_repo
        /\ Step(TRUE, rc, "excluded")
    /\ kidx' = 1
    /\ UNCHANGED <<c_env, sanitized_name, answer, prompted, c_out,
                   repoVars, updateVars>>

\* create_feature_branch.py:160-161 and 169-170: the path is not on disk
ExcludedSkip ==
    /\ cpc = "excluded" /\ kidx <= Len(EXCLUDED_PATHS)
    /\ kidx' = kidx + 1
    /\ UNCHANGED <<cpc, c_env, sanitized_name, answer, prompted, issued, c_repo,
                   c_last, c_exit, c_out,
                   repoVars, updateVars>>

\* create_feature_branch.py:160-168: git rm [-r] <path>, check=False
ExcludedRemove ==
    /\ cpc = "excluded" /\ kidx <= Len(EXCLUDED_PATHS)
    /\ Cardinality(c_env.disk) < MaxOnDisk
    /\ c_env' = [c_env EXCEPT !.disk = @ \cup {EXCLUDED_PATHS[kidx]}]
    /\ \E rc \in Free(EXCLUDED_PATHS[kidx] \notin c_repo.index) :
        /\ Issue("rm", EXCLUDED_PATHS[kidx], rc)
        /\ c_last' = RunCmd("rm", FALSE, rc)
        /\ c_repo' = IF rc = 0
                     THEN [c_repo EXCEPT !.index = @ \ {EXCLUDED_PATHS[kidx]}]
                     ELSE c_repo
        /\ Step(FALSE, rc, "excluded")
    /\ kidx' = kidx + 1
    /\ UNCHANGED <<sanitized_name, answer, prompted, c_out,
                   repoVars, updateVars>>

\* create_feature_branch.py:175: git add <sanitized_name>
GitAdd ==
    /\ cpc = "excluded" /\ kidx > Len(EXCLUDED_PATHS)
    /\ \E rc \in Free(FALSE) :
        /\ Issue("add", sanitized_name, rc)
        /\ c_last' = RunCmd("add", TRUE, rc)
        /\ Step(TRUE, rc, "commit")
    /\ UNCHANGED <<c_env, sanitized_name, answer, prompted, kidx, c_repo,
                   c_out,
                   repoVars, updateVars>>

\* create_feature_branch.py:179: git commit -a -m "init branch"; -a also
\* records the tracked paths that are gone from the disk
GitCommit ==
    /\ cpc = "commit"
    /\ \E rc \in Free(FALSE) :
        /\ Issue("commit", <<>>, rc)
        /\ c_last' = RunCmd("commit", TRUE, rc)
        /\ c_repo' = IF rc = 0
                     THEN [c_repo EXCEPT !.tree =
                             { q \in c_repo.index : IsExcluded(q) => q \in c_env.disk }]
                     ELSE c_repo
        /\ Step(TRUE, rc, "push")
    /\ UNCHANGED <<c_env, sanitized_name, answer, prompted, kidx, c_out,
                   repoVars, updateVars>>

\* create_feature_branch.py:183-185: git push --set-upstream origin <name>
GitPush ==
    /\ cpc = "push"
    /\ \E rc \in Free(FALSE) :
        /\ Issue("push", sanitized_name, rc)
        /\ c_last' = RunCmd("push", TRUE, rc)
        /\ c_repo' = IF rc = 0
                     THEN [c_repo EXCEPT !.remote = @ \cup {sanitized_name}]
                     ELSE c_repo
        /\ IF CRaises(TRUE, rc) THEN CExit("failed", 1) ELSE CExit("completed", 0)
    /\ UNCHANGED <<c_env, sanitized_name, answer, prompted, kidx, c_out,
                   repoVars, updateVars>>

\* The propagation flow is not running.
UpdateIdle ==
    /\ listing = <<>>
    /\ localBr = {MAIN}
    /\ tip = [n \in Names |-> IF n = MAIN THEN MainTree ELSE NoTree]
    /\ remote = [n \in Names |-> IF n = MAIN THEN MainTree ELSE NoTree]
    /\ cur = MAIN
    /\ wt = MainTree
    /\ fails = 0
    /\ pc = "idle"
    /\ config_branches = <<>>
    /\ idx = 1
    /\ exists = FALSE
    /\ fidx = 1
    /\ changes_made = FALSE
    /\ last = NoCmd
    /\ steps = <<>>
    /\ exit_code = -1

InitCreate ==
    /\ UpdateIdle
    /\ cpc = "start"
    /\ c_env = NoEnv
    /\ sanitized_name = <<>>
    /\ answer = <<>>
    /\ prompted = FALSE
    /\ issued = <<>>
    /\ kidx = 1
    /\ c_repo = Repo0
    /\ c_last = NoCCmd
    /\ c_exit = -1
    /\ c_out = <<>>

NextCreate ==
    \/ IsGitInstalled
    \/ CanCommit
    \/ ReadArgv
    \/ SanitizeName
    \/ Prompt
    \/ GitCheckoutB
    \/ GitMv
    \/ ExcludedSkip
    \/ ExcludedRemove
    \/ GitAdd
    \/ GitCommit
    \/ GitPush

SpecCreate == InitCreate /\ [][NextCreate]_vars


(***************************************************************************)
(* Properties of the branch creation flow (SpecCreate)                     *)
(***************************************************************************)
GitSteps == {"checkout_b", "mv", "excluded", "commit", "push"}
\* The flow is past the confirmation (it went on, or it ended there).
Decided  == cpc \in GitSteps \cup {"completed", "failed", "declined", "eof"}
Mutated  == issued # <<>> \/ c_repo # Repo0
SaidYes  == Normalized(answer) \in {<<"y">>, <<"y", "e", "s">>}
FatalIssued(i) == issued[i].cmd # "rm"
\* The five fatal commands of step 4 were issued in order and returned 0.
CompletedAll ==
    /\ [i \in DOMAIN SelectSeq(issued, LAMBDA c : c.cmd # "rm") |->
            SelectSeq(issued, LAMBDA c : c.cmd # "rm")[i].cmd]
         = <<"checkout_b", "mv", "add", "commit", "push">>
    /\ \A i \in DOMAIN issued : FatalIssued(i) => issued[i].rc = 0
DeclinedByUser == prompted /\ answer # EOF /\ ~SaidYes

\* C8: no mutating command is issued, and the repository is what it was,
\* unless the tool check, the identity check, the argument, the sanitization
\* and, for a changed name, the confirmation have all passed; an input with
\* a forbidden character never gets past the sanitization.
C8_ChecksBeforeMutation ==
    /\ (Mutated \/ cpc \in GitSteps) =>
          /\ c_env.git /\ c_env.name /\ c_env.email
          /\ Len(c_env.argv) >= 1
          /\ ~Contains(original_branch_name, Forbidden)
          /\ sanitized_name = Sanitize(original_branch_name)
          /\ sanitized_name # original_branch_name => (prompted /\ SaidYes)
    /\ (Len(c_env.argv) >= 1 /\ Contains(original_branch_name, Forbidden)) =>
          /\ cpc \in {"sanitize", "invalid"}
          /\ ~Mutated
          /\ cpc = "invalid" => c_exit = 1

\* A changed name was confirmed and the repository has been changed.
C8_Witness ==
    /\ prompted /\ SaidYes
    /\ c_repo # Repo0
    /\ Len(issued) > 1

\* C9: the process exits with status 0 exactly when the five fatal commands
\* of step 4 all returned 0 (an rm may have failed) or the user declined,
\* and with status 1 exactly when the tool is missing, the identity is not
\* set, the argument is missing, the name has a forbidden character, a fatal
\* command returned non-zero, or the prompt found stdin closed.
C9_ExitStatus ==
    /\ c_exit \in {-1, 0, 1}
    /\ c_exit = 0 <=> (CompletedAll \/ DeclinedByUser)
    /\ c_exit = 1 <=>
          \/ cpc # "start" /\ ~c_env.git
          \/ cpc \notin {"start", "identity"} /\ ~(c_env.name /\ c_env.email)
          \/ cpc \notin {"start", "identity", "argv"} /\ c_env.git
                /\ c_env.name /\ c_env.email /\ Len(c_env.argv) < 1
          \/ cpc # "sanitize" /\ Len(c_env.argv) >= 1
                /\ Contains(original_branch_name, Forbidden)
          \/ \E i \in DOMAIN issued : FatalIssued(i) /\ issued[i].rc # 0
          \/ prompted /\ answer = EOF

\* The flow ran to its end with status 0 although an rm failed.
C9_Witness ==
    /\ c_exit = 0 /\ CompletedAll
    /\ \E i \in DOMAIN issued : issued[i].cmd = "rm" /\ issued[i].rc # 0

\* C10: the prompt is made exactly when the sanitized name differs from the
\* input; the git steps run only when there was no prompt or the answer,
\* trimmed and lower-cased, is "y" or "yes"; any other answer ends the
\* process with status 0 and nothing mutated.
C10_Confirmation ==
    /\ Decided => (prompted <=> sanitized_name # original_branch_name)
    /\ ~Decided => ~prompted
    /\ (cpc \in GitSteps \/ Mutated) => (~prompted \/ SaidYes)
    /\ DeclinedByUser => (c_exit = 0 /\ ~Mutated)

\* " Y" was answered for a changed name and the git steps began.
C10_Witness ==
    /\ prompted
    /\ answer = <<" ", "Y">>
    /\ sanitized_name # original_branch_name
    /\ Len(issued) > 0

(***************************************************************************)
(* Claims on update.py, continued                                          *)
(***************************************************************************)
\* C17: a push is issued for a branch only if a change was recorded for it
\* and the commit of the same iteration returned status 0; after a failed
\* commit no push is issued for that branch.
C17_PushAfterCommit ==
    /\ pc = "push" => /\ changes_made
                      /\ last.cmd = "commit" /\ last.rc = 0 /\ last.on = cur
    /\ \A i \in Iterations :
        /\ "push" \in steps[i] => "committed" \in steps[i]
        /\ "commit_failed" \in steps[i] => "push" \notin steps[i]

\* One branch was pushed after its commit, another had its commit fail and
\* was left without a push.
C17_Witness ==
    \E i, j \in Iterations :
        /\ Over(i) /\ Over(j)
        /\ {"committed", "push"} \subseteq steps[i]
        /\ "commit_failed" \in steps[j] /\ "push" \notin steps[j]

\* C18: a Files-To-Update path is overwritten from main only if it exists in
\* the branch's checkout; an absent path is neither created nor overwritten,
\* and a change is recorded for the path exactly when the diff against HEAD
\* lists it after the overwrite.
C18_OverwriteExisting ==
    [][ /\ (pc = "update" /\ fidx <= Len(FILES_TO_UPDATE)) =>
            LET f == FILES_TO_UPDATE[fidx]
            IN  /\ last'.cmd = "checkout_file" /\ last' # last
                    => wt[f] # "absent"
                /\ wt[f] = "absent" =>
                    /\ wt' = wt /\ last' = last
                    /\ changes_made' = changes_made
                    /\ pc' = "update" /\ fidx' = fidx + 1
        /\ (pc = "diff" /\ pc' # "aborted") =>
            LET f      == FILES_TO_UPDATE[fidx]
                listed == last'.rc = 0 /\ wt[f] # tip[cur][f]
            IN  /\ wt[f] # "absent"
                /\ changes_made' = (changes_made \/ listed)
                /\ listed <=> "listed" \in steps'[idx]
      ]_vars

\* On one branch the path was absent and skipped, on another it was
\* overwritten and the diff listed it.
C18_Witness ==
    \E i, j \in Iterations :
        /\ Over(i) /\ Over(j)
        /\ "skipped_absent" \in steps[i] /\ "updated" \notin steps[i]
        /\ {"updated", "listed"} \subseteq steps[j]

\* The names the listing denotes: for every line that has no "->" and starts
\* with the remote prefix, what follows that prefix, unless it is skipped.
NamesOfListing(lines) ==
    LET name(l) == Tail(StripLine(l))
        kept    == SelectSeq(lines, LAMBDA l :
                       /\ ~HasArrow(l)
                       /\ StartsWithOrigin(StripLine(l))
                       /\ ~InList(name(l), SKIP_BRANCHES))
    IN  [i \in DOMAIN kept |-> name(kept[i])]
\* get_remote_branches has returned.
Returned == pc \notin {"idle", "start", "fetch", "branch_r"}
                /\ ~(pc = "aborted" /\ last.cmd \in {"checkout_main", "fetch", "branch_r"})

\* C19: get_remote_branches runs the fetch before the listing and returns, in
\* listing order, exactly the names N such that origin/N is a listed entry
\* without "->" and N is not skipped: only the leading remote prefix is
\* stripped, so every returned name N denotes an existing remote ref origin/N.
C19_ReturnsListedNames ==
    /\ pc = "branch_r" => last.cmd = "fetch" /\ last.rc = 0
    /\ Returned =>
        /\ config_branches = NamesOfListing(listing)
        /\ \A i \in DOMAIN config_branches :
               config_branches[i] \in RemoteRefs(listing)

(***************************************************************************)
(* Claims on create_feature_branch.py, continued                           *)
(***************************************************************************)
\* The place of a command in the order of step 4, and of a path in the list.
Rank(c) == CASE c = "checkout_b" -> 1 [] c = "mv" -> 2 [] c = "rm" -> 3
             [] c = "add" -> 4 [] c = "commit" -> 5 [] c = "push" -> 6
PlaceOf(path) == CHOOSE k \in DOMAIN EXCLUDED_PATHS : EXCLUDED_PATHS[k] = path
IssuedCmd(c)  == \E i \in DOMAIN issued : issued[i].cmd = c
\* The excluded paths the loop has gone past.
Passed == IF cpc \in {"checkout_b", "mv"} \/ ~IssuedCmd("mv") THEN {}
          ELSE { EXCLUDED_PATHS[k] : k \in 1..(kidx - 1) }

\* C11: the commands are issued in the order checkout -b, mv, rm of each
\* existing excluded path, add, commit, push, each at most once; a non-zero
\* status of checkout -b, mv, add, commit or push stops the flow at once with
\* exit status 1, no later step and no rollback (the created branch stays);
\* a non-zero status of an rm does not stop the flow.
C11_OrderAndAbort ==
    /\ \A i, j \in DOMAIN issued : i < j =>
        /\ Rank(issued[i].cmd) <= Rank(issued[j].cmd)
        /\ Rank(issued[i].cmd) = Rank(issued[j].cmd) =>
            /\ issued[i].cmd = "rm"
            /\ PlaceOf(issued[i].arg) < PlaceOf(issued[j].arg)
    \* nothing is left out on the way
    /\ \A c \in {"mv", "add", "commit", "push"} : IssuedCmd(c) =>
        \E i \in DOMAIN issued :
            /\ issued[i].rc = 0
            /\ issued[i].cmd = CASE c = "mv" -> "checkout_b" [] c = "add" -> "mv"
                                 [] c = "commit" -> "add" [] c = "push" -> "commit"
    /\ \A path \in Passed :
           path \in c_env.disk <=>
               \E i \in DOMAIN issued : issued[i].cmd = "rm" /\ issued[i].arg = path
    \* a fatal failure is the last thing the flow does
    /\ \A i \in DOMAIN issued : (FatalIssued(i) /\ issued[i].rc # 0) =>
           i = Len(issued) /\ cpc = "failed" /\ c_exit = 1
    /\ cpc = "failed" => issued[Len(issued)].rc # 0 /\ FatalIssued(Len(issued))
    \* the branch created stays, whatever follows
    /\ (IssuedCmd("checkout_b") /\ issued[1].rc = 0) =>
           sanitized_name \in c_repo.local /\ c_repo.head = sanitized_name
    \* a failed rm is followed by the next step
    /\ \A i \in DOMAIN issued : (issued[i].cmd = "rm" /\ issued[i].rc # 0) =>
           IF i = Len(issued) THEN cpc = "excluded" /\ c_exit = -1
           ELSE Rank(issued[i + 1].cmd) \in {3, 4}

\* An rm failed, the flow went on to the commit, the commit failed and the
\* flow ended there with the new branch still checked out.
C11_Witness ==
    /\ cpc = "failed" /\ c_exit = 1
    /\ \E i \in DOMAIN issued : issued[i].cmd = "rm" /\ issued[i].rc # 0
    /\ issued[Len(issued)].cmd = "commit"
    /\ c_repo.head = sanitized_name

\* The status of the rm issued for a path (none issued: -1).
RmStatus(path) ==
    IF \E i \in DOMAIN issued : issued[i].cmd = "rm" /\ issued[i].arg = path
    THEN issued[CHOOSE i \in DOMAIN issued :
                   issued[i].cmd = "rm" /\ issued[i].arg = path].rc
    ELSE -1
\* The flow ended with status 0 after the push.
Completed == cpc = "completed" /\ c_exit = 0
BranchMade ==
    /\ sanitized_name \in c_repo.local
    /\ sanitized_name \in c_repo.remote
    /\ MainFile \notin c_repo.tree
    /\ sanitized_name \in c_repo.tree

\* C12, as stated: when the flow completes, the new branch exists locally and
\* remotely, its tree has no file `main` but one named after the branch, and
\* every excluded path that existed on disk is absent from its tree.
C12_ExcludedAbsent ==
    Completed => BranchMade /\ \A path \in c_env.disk : path \notin c_repo.tree

\* C12, amended: when the flow completes, the new branch exists locally and
\* remotely, its tree has no file `main` but one named after the branch, and
\* every excluded path that existed on disk and whose rm returned 0 is absent
\* from its tree.
C12_RemovedAbsent ==
    Completed =>
        /\ BranchMade
        /\ \A path \in c_env.disk : RmStatus(path) = 0 => path \notin c_repo.tree

\* The flow completed with an excluded path found on disk and removed.
C12_Witness ==
    /\ Completed
    /\ \E path \in c_env.disk : RmStatus(path) = 0

\* C13: whenever a command run in fatal mode returns a non-zero status, the
\* command runner prints the failed command, its captured stdout and its
\* captured stderr before the failure is raised and the process exits
\* non-zero.
C13_FailureReported ==
    (c_last.check /\ c_last.rc # 0) => c_last.printed

(***************************************************************************)
(* Claims on sanitize_branch_name                                          *)
(***************************************************************************)
\* sanitize_branch_name has returned a name.
HasName == cpc \in GitSteps \cup {"prompt", "completed", "failed", "declined", "eof"}
\* main() is past the call of sanitize_branch_name.
PastSanitize == HasName \/ cpc = "invalid"

\* The description of the result, position by position.
Least(S)    == CHOOSE i \in S : \A j \in S : i <= j
Greatest(S) == CHOOSE i \in S : \A j \in S : j <= i
\* s without the characters of cs at its two ends
Trimmed(s, cs) ==
    LET inner == {i \in DOMAIN s : s[i] \notin cs}
    IN  IF inner = {} THEN <<>> ELSE SubSeq(s, Least(inner), Greatest(inner))
\* s with every run of characters of cs replaced by the one character `to`
Squeezed(s, cs, to) ==
    LET kept  == {i \in DOMAIN s : ~(s[i] \in cs /\ i > 1 /\ s[i - 1] \in cs)}
        at(k) == CHOOSE i \in kept : Cardinality({j \in kept : j <= i}) = k
    IN  [k \in 1..Cardinality(kept) |-> IF s[at(k)] \in cs THEN to ELSE s[at(k)]]
\* what follows the last "/" of s
LastSegment(s) ==
    LET seps == {i \in DOMAIN s : s[i] = "/"}
    IN  IF seps = {} THEN s ELSE SubSeq(s, Greatest(seps) + 1, Len(s))
Described(s) ==
    LastSegment(Trimmed(Squeezed(Squeezed(Trimmed(s, {" ", "\n", "\t"}),
                                          {" ", "\n", "\t"}, "-"),
                                 {"/"}, "/"),
                        {"/"}))
ListedChars == {"~", "^", ":", "?", "*", "[", "]", "\\"}
HasListedChar(s) == \E i \in DOMAIN s : s[i] \in ListedChars

\* C14: for every input without a forbidden character sanitize_branch_name
\* returns the input with surrounding whitespace trimmed, each whitespace run
\* replaced by one dash, each run of "/" collapsed, leading and trailing "/"
\* removed and only the last segment kept: "new branch" gives "new-branch",
\* "another/bad///name" gives "name" and "test" gives "test".
C14_SanitizedForm ==
    PastSanitize =>
        /\ ~HasListedChar(original_branch_name) =>
               HasName /\ sanitized_name = Described(original_branch_name)
        /\ original_branch_name = <<"n", "e", "w", " ", "b", "r", "a", "n", "c", "h">>
               => sanitized_name = <<"n", "e", "w", "-", "b", "r", "a", "n", "c", "h">>
        /\ original_branch_name =
               <<"a", "n", "o", "t", "h", "e", "r", "/", "b", "a", "d", "/", "/", "/",
                 "n", "a", "m", "e">>
               => sanitized_name = <<"n", "a", "m", "e">>
        /\ original_branch_name = <<"t", "e", "s", "t">>
               => sanitized_name = <<"t", "e", "s", "t">>

\* "another/bad///name" was given, "name" was returned and confirmed.
C14_Witness ==
    /\ HasName /\ Len(original_branch_name) = 18
    /\ sanitized_name = <<"n", "a", "m", "e">>
    /\ cpc = "completed"

\* C15: sanitize_branch_name is idempotent: applied to its own output it
\* succeeds and returns that output unchanged.
C15_Idempotent ==
    HasName =>
        /\ ~SanitizeFails(sanitized_name)
        /\ Sanitize(sanitized_name) = sanitized_name

\* A name that the first application changed, in more than one way.
C15_Witness ==
    /\ HasName
    /\ original_branch_name = <<"/", "a", " ">>
    /\ sanitized_name = <<"a">>

C20_NameNotEmpty ==
    /\ cpc \in GitSteps => sanitized_name # <<>>
    /\ \A i \in DOMAIN issued :
           issued[i].cmd \in {"checkout_b", "mv", "add", "push"} => issued[i].arg # <<>>

====
